---- MODULE Spec2Model ----
(***************************************************************************)
(* Model of the smrepl wallet session: the account commands of the REPL    *)
(* (repl/account_commands.go), the wallet backend (client/backend.go) and  *)
(* the Client interface the REPL talks to (repl.go).                       *)
(*                                                                         *)
(* The Client implementation and package common (Store, LoadAccounts,      *)
(* StoreAccounts) are not part of the sources at hand; their operations    *)
(* are modelled from the design document and are named Client_* / Load* /  *)
(* common_*.                                                               *)
(***************************************************************************)
EXTENDS Integers, Sequences, FiniteSets, TLC

(* ---------------------------------------------------------------- bounds *)
MaxAccounts == 2      \* the store grows while it is shorter than this

Aliases == {"alice", "bob", "carol"}
Keys == {1, 2}          \* private keys a caller may hand to Transfer
Nonces == {0, 1}
Msgs == {"m1", "m2"}
Recipients == {"r1"}

VARIABLES
    pc,        \* "boot" | "running" | "crashed" | "noconn": the process
    store,     \* WalletBackend.Store: the accounts in memory, in creation order
    current,   \* WalletBackend.currentAccount: 0 is nil, k points at store[k]
    file,      \* the accounts file at accountsFilePath
    out,       \* what the last command or call did and returned
    commands,  \* repl.commands: the command table
    clientOpen,\* repl.clientOpen
    input,     \* repl.input: the text of the last command that was run
    disp       \* what executor was given last, the table it searched and the
               \* command it matched

vars == <<pc, store, current, file, out, commands, clientOpen, input, disp>>

(* ------------------------------------------------------------ data model *)
NoAccount == [name |-> "", key |-> 0]
NoErr == ""

\* the accounts file: absent, present but unparsable, or a saved store
AbsentFile == [kind |-> "absent", accs |-> <<>>]
CorruptFile == [kind |-> "corrupt", accs |-> <<>>]
ValidFile(accs) == [kind |-> "valid", accs |-> accs]

\* the backend: the fields of WalletBackend plus the file its path names
Backend(s, c, f) == [store |-> s, current |-> c, file |-> f]

AliasesOf(s) == {s[i].name : i \in 1..Len(s)}

NoOut ==
    [op |-> "", err |-> NoErr, calls |-> <<>>, alias |-> "", choice |-> -1,
     acc |-> NoAccount, sig |-> <<>>, query |-> <<>>, submitted |-> <<>>]

(* --------------------------------------------- package common (from design) *)
\* common.LoadAccounts: an absent file is an empty store and no error, an
\* unparsable file is CorruptStoreError; the file is only read.
common_LoadAccounts(f) ==
    CASE f.kind = "valid" -> [store |-> f.accs, err |-> NoErr]
      [] f.kind = "absent" -> [store |-> <<>>, err |-> NoErr]
      [] OTHER -> [store |-> <<>>, err |-> "CorruptStoreError"]

\* common.StoreAccounts: writes the whole ordered sequence, atomically
\* (temp file, then rename): a failed save leaves the file as it was.
common_StoreAccounts(f, s, ok) ==
    IF ok THEN ValidFile(s) ELSE f

(* ------------------------------------------------------ client/backend.go *)
\* NewWalletBackend that starts with the first account selected, whether
\* or not the store holds one
NewWalletBackend_StartsSelected(f, connectOK) ==
    LET l == common_LoadAccounts(f)
        acc == IF l.err # NoErr THEN <<>> ELSE l.store
    IN  IF ~connectOK
        THEN [ok |-> FALSE, b |-> Backend(<<>>, 0, f), err |-> "ConnectError"]
        ELSE [ok |-> TRUE, b |-> Backend(acc, 1, f), err |-> NoErr]

\* NewWalletBackend that selects the first of the accounts it loaded
NewWalletBackend_SelectsLoaded(f, connectOK) ==
    LET l == common_LoadAccounts(f)
        acc == IF l.err # NoErr THEN <<>> ELSE l.store
    IN  IF ~connectOK
        THEN [ok |-> FALSE, b |-> Backend(<<>>, 0, f), err |-> "ConnectError"]
        ELSE [ok |-> TRUE, b |-> Backend(acc, IF Len(acc) > 0 THEN 1 ELSE 0, f),
              err |-> NoErr]

\* NewWalletBackend that writes the empty store it fell back to
NewWalletBackend_SavesFallback(f, connectOK) ==
    LET l == common_LoadAccounts(f)
        acc == IF l.err # NoErr THEN <<>> ELSE l.store
        f1 == IF l.err # NoErr THEN common_StoreAccounts(f, acc, TRUE) ELSE f
    IN  IF ~connectOK
        THEN [ok |-> FALSE, b |-> Backend(<<>>, 0, f1), err |-> "ConnectError"]
        ELSE [ok |-> TRUE, b |-> Backend(acc, 0, f1), err |-> NoErr]

NewWalletBackend(f, connectOK) ==
    LET l == common_LoadAccounts(f)
        acc == IF l.err # NoErr THEN <<>> ELSE l.store
    IN  IF ~connectOK
        THEN [ok |-> FALSE, b |-> Backend(<<>>, 0, f), err |-> "ConnectError"]
        ELSE [ok |-> TRUE, b |-> Backend(acc, 0, f), err |-> NoErr]

WalletBackend_CurrentAccount(b) == b.current

WalletBackend_SetCurrentAccount(b, a) == [b EXCEPT !.current = a]

WalletBackend_StoreAccounts(b, ok) ==
    [b |-> [b EXCEPT !.file = common_StoreAccounts(b.file, b.store, ok)],
     err |-> IF ok THEN NoErr ELSE "IOError"]

(* ------------------------------------- the Client interface (from design) *)
\* ed25519.GenerateKey(rand.Reader): a key pair no account of the store has
GenerateKey(s) ==
    IF Len(s) = 0 THEN 1
    ELSE 1 + (CHOOSE k \in {s[i].key : i \in 1..Len(s)} :
                 \A j \in 1..Len(s) : s[j].key <= k)

\* CreateAccount: DuplicateAliasError on a known alias; otherwise appends a
\* fresh key pair under the alias; the first account of an empty store
\* becomes current.  Does not persist.
Client_CreateAccount(b, alias) ==
    IF alias \in AliasesOf(b.store)
    THEN [b |-> b, acc |-> NoAccount, err |-> "DuplicateAliasError"]
    ELSE LET a == [name |-> alias, key |-> GenerateKey(b.store)]
             b1 == [b EXCEPT !.store = Append(@, a)]
         IN  [b |-> IF Len(b.store) = 0
                    THEN WalletBackend_SetCurrentAccount(b1, 1)
                    ELSE b1,
              acc |-> a, err |-> NoErr]

Client_CurrentAccount(b) ==
    LET c == WalletBackend_CurrentAccount(b)
    IN  IF c = 0
        THEN [acc |-> NoAccount, err |-> "NoCurrentAccountError"]
        ELSE [acc |-> b.store[c], err |-> NoErr]

\* SetCurrentAccount(accountNumber): accountNumber is a 0-based position
Client_SetCurrentAccount(b, accountNumber) ==
    IF accountNumber >= 0 /\ accountNumber < Len(b.store)
    THEN [b |-> WalletBackend_SetCurrentAccount(b, accountNumber + 1), err |-> NoErr]
    ELSE [b |-> b, err |-> "IndexOutOfRangeError"]

Client_ListAccounts(b, ok) ==
    IF ok
    THEN [accs |-> [i \in 1..Len(b.store) |-> b.store[i].name], err |-> NoErr]
    ELSE [accs |-> <<>>, err |-> "ListAccountsError"]

\* multipleChoice: the number the operator types at the prompt, 0 for none
multipleChoice(accs, choice) == choice

(* ------------------------------------------------ repl/account_commands.go *)
\* the operator's and the environment's part in one command
\* (a prompt is answered only when the command reaches it)
DefaultIn == [listOK |-> TRUE, choice |-> 0, alias |-> "alice", saveOK |-> TRUE]

\* account-new asks for the alias; the save succeeds or fails
CreateInputs ==
    {[DefaultIn EXCEPT !.alias = a, !.saveOK = s] : a \in Aliases, s \in BOOLEAN}

\* account-set lists the accounts, then asks for an alias when there is none
\* and for a number otherwise
ChooseInputs(b) ==
    {[DefaultIn EXCEPT !.listOK = FALSE]} \cup
    (IF Len(b.store) = 0 THEN CreateInputs
     ELSE {[DefaultIn EXCEPT !.choice = c] : c \in 0..(Len(b.store) + 1)})

\* getCurrent asks nothing when an account is current
CurrentInputs(b) ==
    IF b.current # 0 THEN {DefaultIn} ELSE ChooseInputs(b)

\* what a handler leaves behind: the backend, the error it logged, the
\* Client calls it made in order (":err" marks a call that returned an
\* error), and what the operator typed ("" / -1 when not asked)
Res(b, err, calls, alias, choice) ==
    [b |-> b, err |-> err, calls |-> calls, alias |-> alias, choice |-> choice]

\* createAccount that saves before it creates
createAccount_SavesFirst(b, in) ==
    LET s == WalletBackend_StoreAccounts(b, in.saveOK)
        c == Client_CreateAccount(s.b, in.alias)
    IN  IF s.err # NoErr
        THEN Res(s.b, s.err, <<"StoreAccounts:err">>, in.alias, -1)
        ELSE IF c.err # NoErr
        THEN Res(c.b, c.err, <<"StoreAccounts", "CreateAccount:err">>, in.alias, -1)
        ELSE Res(c.b, NoErr, <<"StoreAccounts", "CreateAccount">>, in.alias, -1)

\* createAccount without the return after a failed CreateAccount
createAccount_StoresAnyway(b, in) ==
    LET c == Client_CreateAccount(b, in.alias)
        s == WalletBackend_StoreAccounts(c.b, in.saveOK)
    IN  IF s.err # NoErr
        THEN Res(s.b, s.err,
                 <<IF c.err # NoErr THEN "CreateAccount:err" ELSE "CreateAccount",
                   "StoreAccounts:err">>, in.alias, -1)
        ELSE Res(s.b, c.err,
                 <<IF c.err # NoErr THEN "CreateAccount:err" ELSE "CreateAccount",
                   "StoreAccounts">>, in.alias, -1)

\* createAccount that ends by selecting the account it created
createAccount_SetsCurrent(b, in) ==
    LET c == Client_CreateAccount(b, in.alias)
    IN  IF c.err # NoErr
        THEN Res(c.b, c.err, <<"CreateAccount:err">>, in.alias, -1)
        ELSE LET s == WalletBackend_StoreAccounts(c.b, in.saveOK)
             IN  IF s.err # NoErr
                 THEN Res(s.b, s.err, <<"CreateAccount", "StoreAccounts:err">>,
                          in.alias, -1)
                 ELSE Res(WalletBackend_SetCurrentAccount(s.b, Len(s.b.store)), NoErr,
                          <<"CreateAccount", "StoreAccounts">>, in.alias, -1)

createAccount(b, in) ==
    LET c == Client_CreateAccount(b, in.alias)
    IN  IF c.err # NoErr
        THEN Res(c.b, c.err, <<"CreateAccount:err">>, in.alias, -1)
        ELSE LET s == WalletBackend_StoreAccounts(c.b, in.saveOK)
             IN  IF s.err # NoErr
                 THEN Res(s.b, s.err, <<"CreateAccount", "StoreAccounts:err">>,
                          in.alias, -1)
                 ELSE Res(s.b, NoErr, <<"CreateAccount", "StoreAccounts">>,
                          in.alias, -1)

\* chooseAccount that saves the accounts after a selection
chooseAccount_Saves(b, in) ==
    LET l == Client_ListAccounts(b, in.listOK)
    IN  IF l.err # NoErr
        THEN Res(b, l.err, <<"ListAccounts:err">>, "", -1)
        ELSE IF Len(l.accs) = 0
        THEN LET c == createAccount(b, in)
             IN  [c EXCEPT !.calls = <<"ListAccounts">> \o @]
        ELSE LET accNumber == multipleChoice(l.accs, in.choice)
             IN  IF accNumber = 0
                 THEN Res(b, NoErr, <<"ListAccounts">>, "", in.choice)
                 ELSE LET s == Client_SetCurrentAccount(b, accNumber - 1)
                      IN  IF s.err # NoErr
                          THEN Res(s.b, s.err,
                                   <<"ListAccounts", "SetCurrentAccount:err">>,
                                   "", in.choice)
                          ELSE Res(WalletBackend_StoreAccounts(s.b, TRUE).b, NoErr,
                                   <<"ListAccounts", "SetCurrentAccount",
                                     "CurrentAccount">>, "", in.choice)

\* chooseAccount that hands the typed number to SetCurrentAccount as it is
chooseAccount_OffByOne(b, in) ==
    LET l == Client_ListAccounts(b, in.listOK)
    IN  IF l.err # NoErr
        THEN Res(b, l.err, <<"ListAccounts:err">>, "", -1)
        ELSE IF Len(l.accs) = 0
        THEN LET c == createAccount(b, in)
             IN  [c EXCEPT !.calls = <<"ListAccounts">> \o @]
        ELSE LET accNumber == multipleChoice(l.accs, in.choice)
             IN  IF accNumber = 0
                 THEN Res(b, NoErr, <<"ListAccounts">>, "", in.choice)
                 ELSE LET s == Client_SetCurrentAccount(b, accNumber)
                      IN  IF s.err # NoErr
                          THEN Res(s.b, s.err,
                                   <<"ListAccounts", "SetCurrentAccount:err">>,
                                   "", in.choice)
                          ELSE Res(s.b, NoErr,
                                   <<"ListAccounts", "SetCurrentAccount",
                                     "CurrentAccount">>, "", in.choice)

\* chooseAccount without the return after a failed ListAccounts: the nil list
\* has length 0 and the creation flow runs
chooseAccount_FallsThrough(b, in) ==
    LET l == Client_ListAccounts(b, in.listOK)
    IN  IF l.err # NoErr \/ Len(l.accs) = 0
        THEN LET c == createAccount(b, in)
             IN  [c EXCEPT !.calls = <<IF l.err # NoErr THEN "ListAccounts:err"
                                       ELSE "ListAccounts">> \o @]
        ELSE LET accNumber == multipleChoice(l.accs, in.choice)
             IN  IF accNumber = 0
                 THEN Res(b, NoErr, <<"ListAccounts">>, "", in.choice)
                 ELSE LET s == Client_SetCurrentAccount(b, accNumber - 1)
                      IN  IF s.err # NoErr
                          THEN Res(s.b, s.err,
                                   <<"ListAccounts", "SetCurrentAccount:err">>,
                                   "", in.choice)
                          ELSE Res(s.b, NoErr,
                                   <<"ListAccounts", "SetCurrentAccount",
                                     "CurrentAccount">>, "", in.choice)

chooseAccount(b, in) ==
    LET l == Client_ListAccounts(b, in.listOK)
    IN  IF l.err # NoErr
        THEN Res(b, l.err, <<"ListAccounts:err">>, "", -1)
        ELSE IF Len(l.accs) = 0
        THEN LET c == createAccount(b, in)
             IN  [c EXCEPT !.calls = <<"ListAccounts">> \o @]
        ELSE LET accNumber == multipleChoice(l.accs, in.choice)
             IN  IF accNumber = 0
                 THEN Res(b, NoErr, <<"ListAccounts">>, "", in.choice)
                 ELSE LET s == Client_SetCurrentAccount(b, accNumber - 1)
                      IN  IF s.err # NoErr
                          THEN Res(s.b, s.err,
                                   <<"ListAccounts", "SetCurrentAccount:err">>,
                                   "", in.choice)
                          ELSE IF Client_CurrentAccount(s.b).err # NoErr
                          THEN Res(s.b, "panic",
                                   <<"ListAccounts", "SetCurrentAccount",
                                     "CurrentAccount:err">>, "", in.choice)
                          ELSE Res(s.b, NoErr,
                                   <<"ListAccounts", "SetCurrentAccount",
                                     "CurrentAccount">>, "", in.choice)

\* the result of getCurrent: (acc, err), with the trace of the fallback
Got(r, acc, err, calls) ==
    [b |-> r.b, acc |-> acc, err |-> err, calls |-> calls,
     alias |-> r.alias, choice |-> r.choice]

\* getCurrent that falls back on the first stored account when the fallback
\* left none current
getCurrent_PicksFirst(b, in) ==
    LET a == Client_CurrentAccount(b)
    IN  IF a.err # NoErr
        THEN LET c == chooseAccount(b, in)
                 a2 == Client_CurrentAccount(c.b)
             IN  IF a2.err # NoErr /\ Len(c.b.store) > 0
                 THEN Got(c, c.b.store[1], NoErr,
                          <<"CurrentAccount:err">> \o c.calls \o <<"CurrentAccount:err">>)
                 ELSE Got(c, a2.acc, a2.err,
                          <<"CurrentAccount:err">> \o c.calls \o
                          <<IF a2.err # NoErr THEN "CurrentAccount:err"
                            ELSE "CurrentAccount">>)
        ELSE Got(Res(b, NoErr, <<>>, "", -1), a.acc, NoErr, <<"CurrentAccount">>)

\* getCurrent that returns its first answer, without asking again after the
\* fallback
getCurrent_NoRequery(b, in) ==
    LET a == Client_CurrentAccount(b)
    IN  IF a.err # NoErr
        THEN LET c == chooseAccount(b, in)
             IN  Got(c, a.acc, a.err, <<"CurrentAccount:err">> \o c.calls)
        ELSE Got(Res(b, NoErr, <<>>, "", -1), a.acc, NoErr, <<"CurrentAccount">>)

getCurrent(b, in) ==
    LET a == Client_CurrentAccount(b)
    IN  IF a.err # NoErr
        THEN LET c == chooseAccount(b, in)
                 a2 == Client_CurrentAccount(c.b)
             IN  IF c.err = "panic"
                 THEN Got(c, NoAccount, "panic", <<"CurrentAccount:err">> \o c.calls)
                 ELSE Got(c, a2.acc, a2.err,
                          <<"CurrentAccount:err">> \o c.calls \o
                          <<IF a2.err # NoErr THEN "CurrentAccount:err"
                            ELSE "CurrentAccount">>)
        ELSE Got(Res(b, NoErr, <<>>, "", -1), a.acc, NoErr, <<"CurrentAccount">>)

\* LocalAccount.Address / BytesToAddress(acc.PubKey): derived from the key
Address(acc) == <<"addr", acc.key>>

\* ed25519.Sign2(key, msg)
Sign2(key, msg) == <<"sig", key, msg>>

\* what a command that starts with getCurrent leaves behind
Done(op, g, err, sig, query) ==
    [b |-> g.b,
     out |-> [op |-> op, err |-> err, calls |-> g.calls, alias |-> g.alias,
              choice |-> g.choice, acc |-> g.acc,
              sig |-> sig, query |-> query, submitted |-> <<>>]]

printAccountInfo(b, in, remoteOK) ==
    LET g == getCurrent(b, in)
    IN  IF g.err # NoErr
        THEN Done("account-info", g, g.err, <<>>, <<>>)
        ELSE Done("account-info", g, IF remoteOK THEN NoErr ELSE "RemoteError",
                  <<>>, <<"AccountState", Address(g.acc)>>)

printRewards(address, remoteOK) ==
    [query |-> <<"AccountRewards", address>>,
     err |-> IF remoteOK THEN NoErr ELSE "RemoteError"]

printLocalAccountRewards(b, in, remoteOK) ==
    LET g == getCurrent(b, in)
    IN  IF g.err # NoErr
        THEN Done("account-rewards", g, g.err, <<>>, <<>>)
        ELSE LET p == printRewards(Address(g.acc), remoteOK)
             IN  Done("account-rewards", g, p.err, <<>>, p.query)

\* hexOK: whether the typed message is a hex string (hex.DecodeString)
sign(b, in, hexOK, msg) ==
    LET g == getCurrent(b, in)
    IN  IF g.err # NoErr
        THEN Done("account-sign", g, g.err, <<>>, <<>>)
        ELSE IF ~hexOK
        THEN Done("account-sign", g, "DecodeError", <<>>, <<>>)
        ELSE Done("account-sign", g, NoErr, Sign2(g.acc.key, msg), <<>>)

textsign(b, in, msg) ==
    LET g == getCurrent(b, in)
    IN  IF g.err # NoErr
        THEN Done("account-text-sign", g, g.err, <<>>, <<>>)
        ELSE Done("account-text-sign", g, NoErr, Sign2(g.acc.key, msg), <<>>)

(* ---------------------------------------------- client/backend.go: Transfer *)
\* xdr.Marshal of the inner (unsigned) fields, in their declared order
MarshalInner(tx) ==
    <<tx.AccountNonce, tx.Amount, tx.Recipient, tx.GasLimit, tx.Price>>

\* xdr.Marshal of the signed transaction: the inner fields, then the signature
MarshalSigned(tx) == MarshalInner(tx) \o <<tx.Signature>>

\* InterfaceToBytes: nil and the error when xdr.Marshal fails
InterfaceToBytes(bytes, ok) ==
    IF ok THEN [bytes |-> bytes, err |-> NoErr]
    ELSE [bytes |-> <<>>, err |-> "EncodingError"]

\* Transfer that saves the accounts once the node accepted the transaction
Transfer_Saves(b, recipient, nonce, amount, gasPrice, gasLimit, key, env) ==
    LET tx0 == [AccountNonce |-> nonce, Amount |-> amount, Recipient |-> recipient,
                GasLimit |-> gasLimit, Price |-> gasPrice, Signature |-> <<>>]
        buf == InterfaceToBytes(MarshalInner(tx0), env.enc1OK).bytes
        tx == [tx0 EXCEPT !.Signature = Sign2(key, buf)]
        e == InterfaceToBytes(MarshalSigned(tx), env.enc2OK)
        c1 == <<IF env.enc1OK THEN "InterfaceToBytes" ELSE "InterfaceToBytes:err",
                "Sign2">>
    IN  IF e.err # NoErr
        THEN [b |-> b, err |-> e.err, submitted |-> <<>>,
              calls |-> c1 \o <<"InterfaceToBytes:err">>]
        ELSE IF ~env.submitOK
        THEN [b |-> b, err |-> "RemoteError", submitted |-> e.bytes,
              calls |-> c1 \o <<"InterfaceToBytes", "SubmitCoinTransaction:err">>]
        ELSE [b |-> WalletBackend_StoreAccounts(b, TRUE).b, err |-> NoErr,
              submitted |-> e.bytes,
              calls |-> c1 \o <<"InterfaceToBytes", "SubmitCoinTransaction">>]

\* env: [enc1OK, enc2OK, submitOK], the outcome of the two xdr.Marshal calls
\* and of the node's answer to SubmitCoinTransaction
Transfer(b, recipient, nonce, amount, gasPrice, gasLimit, key, env) ==
    LET tx0 == [AccountNonce |-> nonce, Amount |-> amount, Recipient |-> recipient,
                GasLimit |-> gasLimit, Price |-> gasPrice, Signature |-> <<>>]
        buf == InterfaceToBytes(MarshalInner(tx0), env.enc1OK).bytes
        tx == [tx0 EXCEPT !.Signature = Sign2(key, buf)]
        e == InterfaceToBytes(MarshalSigned(tx), env.enc2OK)
        c1 == <<IF env.enc1OK THEN "InterfaceToBytes" ELSE "InterfaceToBytes:err",
                "Sign2">>
    IN  IF e.err # NoErr
        THEN [b |-> b, err |-> e.err, submitted |-> <<>>,
              calls |-> c1 \o <<"InterfaceToBytes:err">>]
        ELSE IF ~env.submitOK
        THEN [b |-> b, err |-> "RemoteError", submitted |-> e.bytes,
              calls |-> c1 \o <<"InterfaceToBytes", "SubmitCoinTransaction:err">>]
        ELSE [b |-> b, err |-> NoErr, submitted |-> e.bytes,
              calls |-> c1 \o <<"InterfaceToBytes", "SubmitCoinTransaction">>]

TransferEnv == [enc1OK : BOOLEAN, enc2OK : BOOLEAN, submitOK : BOOLEAN]
Amounts == {5}
GasPrices == {1}
GasLimits == {100}

(* ------------------------------------------------------- repl: the commands *)
\* a command text is the sequence of its characters, so that the prefix test
\* of executor is a test on sequences
txt_wallet_open ==
    <<"w", "a", "l", "l", "e", "t", "-", "o", "p", "e", "n">>
txt_wallet_create ==
    <<"w", "a", "l", "l", "e", "t", "-", "c", "r", "e", "a", "t", "e">>
txt_wallet_info ==
    <<"w", "a", "l", "l", "e", "t", "-", "i", "n", "f", "o">>
txt_wallet_close ==
    <<"w", "a", "l", "l", "e", "t", "-", "c", "l", "o", "s", "e">>
txt_account_new ==
    <<"a", "c", "c", "o", "u", "n", "t", "-", "n", "e", "w">>
txt_account_set ==
    <<"a", "c", "c", "o", "u", "n", "t", "-", "s", "e", "t">>
txt_account_info ==
    <<"a", "c", "c", "o", "u", "n", "t", "-", "i", "n", "f", "o">>
txt_account_rewards ==
    <<"a", "c", "c", "o", "u", "n", "t", "-", "r", "e", "w", "a", "r",
    "d", "s">>
txt_account_sign ==
    <<"a", "c", "c", "o", "u", "n", "t", "-", "s", "i", "g", "n">>
txt_account_text_sign ==
    <<"a", "c", "c", "o", "u", "n", "t", "-", "t", "e", "x", "t", "-",
    "s", "i", "g", "n">>
txt_account_txs ==
    <<"a", "c", "c", "o", "u", "n", "t", "-", "t", "x", "s">>
txt_account_send_coin ==
    <<"a", "c", "c", "o", "u", "n", "t", "-", "s", "e", "n", "d", "-",
    "c", "o", "i", "n">>
txt_status_node ==
    <<"s", "t", "a", "t", "u", "s", "-", "n", "o", "d", "e">>
txt_status_net ==
    <<"s", "t", "a", "t", "u", "s", "-", "n", "e", "t">>
txt_status_tx ==
    <<"s", "t", "a", "t", "u", "s", "-", "t", "x">>
txt_state_account ==
    <<"s", "t", "a", "t", "e", "-", "a", "c", "c", "o", "u", "n", "t">>
txt_state_rewards ==
    <<"s", "t", "a", "t", "e", "-", "r", "e", "w", "a", "r", "d", "s">>
txt_state_stream_rewards ==
    <<"s", "t", "a", "t", "e", "-", "s", "t", "r", "e", "a", "m", "-",
    "r", "e", "w", "a", "r", "d", "s">>
txt_state_stream_account ==
    <<"s", "t", "a", "t", "e", "-", "s", "t", "r", "e", "a", "m", "-",
    "a", "c", "c", "o", "u", "n", "t">>
txt_state_smesher_rewards ==
    <<"s", "t", "a", "t", "e", "-", "s", "m", "e", "s", "h", "e", "r",
    "-", "r", "e", "w", "a", "r", "d", "s">>
txt_state_global ==
    <<"s", "t", "a", "t", "e", "-", "g", "l", "o", "b", "a", "l">>
txt_smesher_id ==
    <<"s", "m", "e", "s", "h", "e", "r", "-", "i", "d">>
txt_smesher_rewards_address ==
    <<"s", "m", "e", "s", "h", "e", "r", "-", "r", "e", "w", "a", "r",
    "d", "s", "-", "a", "d", "d", "r", "e", "s", "s">>
txt_smesher_set_rewards_address ==
    <<"s", "m", "e", "s", "h", "e", "r", "-", "s", "e", "t", "-", "r",
    "e", "w", "a", "r", "d", "s", "-", "a", "d", "d", "r", "e", "s", "s">>
txt_smesher_rewards ==
    <<"s", "m", "e", "s", "h", "e", "r", "-", "r", "e", "w", "a", "r",
    "d", "s">>
txt_smesher_stop ==
    <<"s", "m", "e", "s", "h", "e", "r", "-", "s", "t", "o", "p">>
txt_smesher_status ==
    <<"s", "m", "e", "s", "h", "e", "r", "-", "s", "t", "a", "t", "u",
    "s">>
txt_smesher_post_status ==
    <<"s", "m", "e", "s", "h", "e", "r", "-", "p", "o", "s", "t", "-",
    "s", "t", "a", "t", "u", "s">>
txt_smesher_post_providers ==
    <<"s", "m", "e", "s", "h", "e", "r", "-", "p", "o", "s", "t", "-",
    "p", "r", "o", "v", "i", "d", "e", "r", "s">>
txt_smesher_start ==
    <<"s", "m", "e", "s", "h", "e", "r", "-", "s", "t", "a", "r", "t">>
txt_dbg_all_accounts ==
    <<"d", "b", "g", "-", "a", "l", "l", "-", "a", "c", "c", "o", "u",
    "n", "t", "s">>
txt_quit ==
    <<"q", "u", "i", "t">>

\* command{text, description, fn}: the text and the handler
command(text, fn) == [text |-> text, fn |-> fn]

\* accountCommands while no wallet is open
closedWalletCommands ==
    <<command(txt_wallet_open, "openWallet"),
      command(txt_wallet_create, "createWallet")>>

\* accountCommands while a wallet is open
openWalletCommands ==
    <<command(txt_wallet_info, "walletInfo"),
      command(txt_wallet_close, "closeWallet"),
      command(txt_account_new, "createAccount"),
      command(txt_account_set, "chooseAccount"),
      command(txt_account_info, "printAccountInfo"),
      command(txt_account_rewards, "printLocalAccountRewards"),
      command(txt_account_sign, "sign"),
      command(txt_account_text_sign, "signText"),
      command(txt_account_txs, "printAccountTransactions"),
      command(txt_account_send_coin, "submitCoinTransaction")>>

\* otherCommands
otherCommands ==
    <<command(txt_status_node, "nodeInfo"),
      command(txt_status_net, "printMeshInfo"),
      command(txt_status_tx, "printTransactionStatus"),
      command(txt_state_account, "printAccountState"),
      command(txt_state_rewards, "printAccountRewards"),
      command(txt_state_stream_rewards, "printAccountRewardsStream"),
      command(txt_state_stream_account, "printAccountRewardsStream"),
      command(txt_state_smesher_rewards, "printSmesherRewards"),
      command(txt_state_global, "printGlobalState"),
      command(txt_smesher_id, "printSmesherId"),
      command(txt_smesher_rewards_address, "printRewardsAddress"),
      command(txt_smesher_set_rewards_address, "setRewardsAddress"),
      command(txt_smesher_rewards, "printCurrentSmesherRewards"),
      command(txt_smesher_stop, "stopSmeshing"),
      command(txt_smesher_status, "printSmeshingStatus"),
      command(txt_smesher_post_status, "printPostStatus"),
      command(txt_smesher_post_providers, "printPostProviders"),
      command(txt_smesher_start, "startSmeshing"),
      command(txt_dbg_all_accounts, "printAllAccounts"),
      command(txt_quit, "quit")>>

\* the repl: its command table, the wallet-open flag and the last input
Repl(cmds, open, text) == [commands |-> cmds, clientOpen |-> open, input |-> text]

Swapped(s, i, j) ==
    [k \in 1..Len(s) |-> IF k = i THEN s[j] ELSE IF k = j THEN s[i] ELSE s[k]]

IndexOf(s, text) == CHOOSE i \in 1..Len(s) : s[i].text = text

\* initializeCommands that lists smesher-rewards ahead of
\* smesher-rewards-address
initializeCommands_RewardsFirst(r) ==
    [r EXCEPT !.commands =
        (IF r.clientOpen THEN openWalletCommands ELSE closedWalletCommands)
        \o Swapped(otherCommands, IndexOf(otherCommands, txt_smesher_rewards),
                   IndexOf(otherCommands, txt_smesher_rewards_address))]

initializeCommands(r) ==
    [r EXCEPT !.commands =
        (IF r.clientOpen THEN openWalletCommands ELSE closedWalletCommands)
        \o otherCommands]

\* Start: r.clientOpen = c.IsOpen(), then initializeCommands
Start(isOpen) == initializeCommands(Repl(<<>>, isOpen, <<>>))

\* openWallet / createWallet: opened is the answer of Client.OpenWallet /
\* Client.NewWallet
openWallet(r, opened) ==
    IF ~opened THEN [r EXCEPT !.clientOpen = FALSE]
    ELSE initializeCommands([r EXCEPT !.clientOpen = TRUE])

createWallet(r, created) ==
    IF ~created THEN [r EXCEPT !.clientOpen = FALSE]
    ELSE initializeCommands([r EXCEPT !.clientOpen = TRUE])

\* closeWallet that leaves the command table as it is
closeWallet_KeepsCommands(r) == [r EXCEPT !.clientOpen = FALSE]

closeWallet(r) == initializeCommands([r EXCEPT !.clientOpen = FALSE])

\* executor: the first command, in table order, whose text the input starts
\* with; i = 0 and fn = "invalid" when there is none
NoMatch == [i |-> 0, text |-> <<>>, fn |-> "invalid"]

RECURSIVE scanExact(_, _, _)
scanExact(cmds, text, i) ==
    IF i > Len(cmds) THEN NoMatch
    ELSE IF text = cmds[i].text
    THEN [i |-> i, text |-> cmds[i].text, fn |-> cmds[i].fn]
    ELSE scanExact(cmds, text, i + 1)

\* len(text) >= len(c.text) && text[:len(c.text)] == c.text
HasPrefix(text, p) == Len(text) >= Len(p) /\ SubSeq(text, 1, Len(p)) = p

RECURSIVE scan(_, _, _)
scan(cmds, text, i) ==
    IF i > Len(cmds) THEN NoMatch
    ELSE IF HasPrefix(text, cmds[i].text)
    THEN [i |-> i, text |-> cmds[i].text, fn |-> cmds[i].fn]
    ELSE scan(cmds, text, i + 1)

\* executor that runs a command only when the input is exactly its text
executor_Exact(cmds, text) == scanExact(cmds, text, 1)

executor(cmds, text) == scan(cmds, text, 1)

(* ------------------------------------------------------------ the machine *)
InitStores ==
    {<<>>, <<[name |-> "alice", key |-> 1]>>,
     <<[name |-> "alice", key |-> 1], [name |-> "bob", key |-> 2]>>}

\* nothing was typed yet
NoDisp == [typed |-> <<>>, table |-> <<>>, text |-> <<>>, fn |-> ""]

Init ==
    /\ pc = "boot"
    /\ store = <<>>
    /\ current = 0
    /\ file \in {AbsentFile, CorruptFile} \cup {ValidFile(s) : s \in InitStores}
    /\ out = NoOut
    /\ commands = <<>>
    /\ clientOpen = FALSE
    /\ input = <<>>
    /\ disp = NoDisp

Me == Backend(store, current, file)

Self == Repl(commands, clientOpen, input)

\* a command ran: the backend it leaves and what it did
Ran(r) ==
    /\ pc' = IF r.out.err = "panic" THEN "crashed" ELSE "running"
    /\ store' = r.b.store
    /\ current' = r.b.current
    /\ file' = r.b.file
    /\ out' = r.out

Cmd(op, r) ==
    [b |-> r.b,
     out |-> [NoOut EXCEPT !.op = op, !.err = r.err, !.calls = r.calls,
                           !.alias = r.alias, !.choice = r.choice]]

\* what the operator types: the text of a wallet or account command, of one
\* of a few other commands, one of these followed by parameters, or
\* something else
Params == <<" ", "x">>

AllCommands == closedWalletCommands \o openWalletCommands \o otherCommands

TypedTexts ==
    {closedWalletCommands[i].text : i \in 1..Len(closedWalletCommands)}
    \cup {openWalletCommands[i].text : i \in 1..Len(openWalletCommands)}
    \cup {txt_smesher_rewards, txt_smesher_rewards_address,
          txt_state_stream_rewards, txt_state_stream_account, txt_quit}

InputTexts ==
    TypedTexts
    \cup {c \o Params : c \in {txt_wallet_open, txt_smesher_rewards,
                               txt_smesher_rewards_address}}

\* texts tried for the case that no command matches: an abbreviation, a
\* command of the open-wallet table, and a command followed by parameters
InvalidTexts ==
    {SubSeq(txt_account_new, 1, 7), txt_account_new,
     txt_smesher_rewards_address \o Params}

Fns == {AllCommands[i].fn : i \in 1..Len(AllCommands)}

\* the texts that can reach fn: those that begin with the text of a command
\* bound to fn
TextsFor ==
    [fn \in Fns |->
        {text \in InputTexts :
            \E i \in 1..Len(AllCommands) :
                AllCommands[i].fn = fn /\ HasPrefix(text, AllCommands[i].text)}]

\* executor matched text to the handler fn: r.input = text, then c.fn()
Dispatched(text, fn) ==
    LET e == executor(commands, text)
    IN  /\ e.fn = fn
        /\ input' = text
        /\ disp' = [typed |-> text, table |-> commands, text |-> e.text, fn |-> e.fn]

\* the operator typed a command that runs fn, a handler that leaves the repl
\* as it is
Handled(fn) ==
    /\ pc = "running"
    /\ \E text \in TextsFor[fn] : Dispatched(text, fn)
    /\ UNCHANGED <<commands, clientOpen>>

SameBackend == UNCHANGED <<pc, store, current, file>>

\* main: NewWalletBackend, then Start; a failed connection ends the process
StartUp ==
    /\ pc \in {"boot", "crashed", "noconn", "exited"}
    /\ \E connectOK \in BOOLEAN, isOpen \in BOOLEAN :
         LET n == NewWalletBackend(file, connectOK)
             r == IF n.ok THEN Start(isOpen) ELSE Repl(<<>>, FALSE, <<>>)
         IN  /\ pc' = IF n.ok THEN "running" ELSE "noconn"
             /\ store' = n.b.store
             /\ current' = n.b.current
             /\ file' = n.b.file
             /\ out' = [NoOut EXCEPT !.op = "start", !.err = n.err]
             /\ commands' = r.commands
             /\ clientOpen' = r.clientOpen
             /\ input' = r.input
             /\ disp' = NoDisp

\* executor found no command
InvalidCommand ==
    /\ pc = "running"
    /\ \E text \in InvalidTexts :
         /\ executor(commands, text).fn = "invalid"
         /\ disp' = [typed |-> text, table |-> commands, text |-> <<>>,
                      fn |-> "invalid"]
    /\ out' = [NoOut EXCEPT !.op = "invalid"]
    /\ SameBackend
    /\ UNCHANGED <<commands, clientOpen, input>>

OpenWallet ==
    /\ pc = "running"
    /\ \E text \in TextsFor["openWallet"], opened \in BOOLEAN :
         /\ Dispatched(text, "openWallet")
         /\ commands' = openWallet(Self, opened).commands
         /\ clientOpen' = openWallet(Self, opened).clientOpen
         /\ out' = [NoOut EXCEPT !.op = "wallet-open",
                                 !.err = IF opened THEN NoErr ELSE "Wallet NOT opened"]
    /\ SameBackend

CreateWallet ==
    /\ pc = "running"
    /\ \E text \in TextsFor["createWallet"], created \in BOOLEAN :
         /\ Dispatched(text, "createWallet")
         /\ commands' = createWallet(Self, created).commands
         /\ clientOpen' = createWallet(Self, created).clientOpen
         /\ out' = [NoOut EXCEPT !.op = "wallet-create",
                                 !.err = IF created THEN NoErr ELSE "Wallet NOT created"]
    /\ SameBackend

CloseWallet ==
    /\ pc = "running"
    /\ \E text \in TextsFor["closeWallet"] : Dispatched(text, "closeWallet")
    /\ commands' = closeWallet(Self).commands
    /\ clientOpen' = closeWallet(Self).clientOpen
    /\ out' = [NoOut EXCEPT !.op = "wallet-close"]
    /\ SameBackend

WalletInfo ==
    /\ Handled("walletInfo")
    /\ out' = [NoOut EXCEPT !.op = "wallet-info"]
    /\ SameBackend

\* the handlers of the node, mesh, smesher and debug commands: they query
\* the node and leave the wallet as it is
OtherFns ==
    ({otherCommands[i].fn : i \in 1..Len(otherCommands)} \ {"quit"})
    \cup {"printAccountTransactions"}

OtherCommand ==
    /\ \E fn \in OtherFns : Handled(fn)
    /\ out' = [NoOut EXCEPT !.op = "other"]
    /\ SameBackend

\* quit: os.Exit(0)
Quit ==
    /\ Handled("quit")
    /\ pc' = "exited"
    /\ out' = [NoOut EXCEPT !.op = "quit"]
    /\ UNCHANGED <<store, current, file>>

AccountNew ==
    /\ Handled("createAccount")
    /\ \E in \in CreateInputs :
         /\ Len(store) < MaxAccounts \/ in.alias \in AliasesOf(store)
         /\ Ran(Cmd("account-new", createAccount(Me, in)))

AccountSet ==
    /\ Handled("chooseAccount")
    /\ \E in \in ChooseInputs(Me) : Ran(Cmd("account-set", chooseAccount(Me, in)))

AccountInfo ==
    /\ Handled("printAccountInfo")
    /\ \E in \in CurrentInputs(Me), remoteOK \in BOOLEAN : Ran(printAccountInfo(Me, in, remoteOK))

AccountRewards ==
    /\ Handled("printLocalAccountRewards")
    /\ \E in \in CurrentInputs(Me), remoteOK \in BOOLEAN :
         Ran(printLocalAccountRewards(Me, in, remoteOK))

AccountSign ==
    /\ Handled("sign")
    /\ \E in \in CurrentInputs(Me), hexOK \in BOOLEAN, msg \in Msgs : Ran(sign(Me, in, hexOK, msg))

\* account-text-sign: the table names signText; the handler at hand is textsign
AccountTextSign ==
    /\ Handled("signText")
    /\ \E in \in CurrentInputs(Me), msg \in Msgs : Ran(textsign(Me, in, msg))

\* account-send-coin: the handler hands the typed fields and a key to Transfer
DoTransfer ==
    /\ Handled("submitCoinTransaction")
    /\ \E recipient \in Recipients, nonce \in Nonces, amount \in Amounts,
          gasPrice \in GasPrices, gasLimit \in GasLimits, key \in Keys,
          env \in TransferEnv :
         LET t == Transfer(Me, recipient, nonce, amount, gasPrice, gasLimit, key, env)
         IN  Ran([b |-> t.b,
                  out |-> [NoOut EXCEPT !.op = "transfer", !.err = t.err,
                                        !.calls = t.calls,
                                        !.submitted = t.submitted]])

\* the process dies between two commands, and the repl with it
Crash ==
    /\ pc = "running"
    /\ pc' = "crashed"
    /\ out' = [NoOut EXCEPT !.op = "crash"]
    /\ commands' = <<>>
    /\ clientOpen' = FALSE
    /\ input' = <<>>
    /\ disp' = NoDisp
    /\ UNCHANGED <<store, current, file>>

\* the process dies inside account-new, after CreateAccount and before
\* StoreAccounts
CrashInCreateAccount ==
    /\ pc = "running"
    /\ executor(commands, txt_account_new).fn = "createAccount"
    /\ commands' = <<>>
    /\ clientOpen' = FALSE
    /\ input' = <<>>
    /\ disp' = NoDisp
    /\ Len(store) < MaxAccounts
    /\ \E in \in CreateInputs :
         LET c == Client_CreateAccount(Me, in.alias)
         IN  /\ c.err = NoErr
             /\ pc' = "crashed"
             /\ store' = c.b.store
             /\ current' = c.b.current
             /\ file' = c.b.file
             /\ out' = [NoOut EXCEPT !.op = "crash", !.calls = <<"CreateAccount">>,
                                      !.alias = in.alias]

Next ==
    \/ StartUp
    \/ InvalidCommand
    \/ OpenWallet
    \/ CreateWallet
    \/ CloseWallet
    \/ WalletInfo
    \/ OtherCommand
    \/ Quit
    \/ AccountNew
    \/ AccountSet
    \/ AccountInfo
    \/ AccountRewards
    \/ AccountSign
    \/ AccountTextSign
    \/ DoTransfer
    \/ Crash
    \/ CrashInCreateAccount

Spec == Init /\ [][Next]_vars

TypeOK ==
    /\ pc \in {"boot", "running", "crashed", "noconn", "exited"}
    /\ current \in 0..Len(store)
    /\ clientOpen \in BOOLEAN

(* ================================================================ claims *)
Range(s) == {s[i] : i \in 1..Len(s)}

Called(o, c) == c \in Range(o.calls)

NeedsCurrent == {"account-info", "account-rewards", "account-sign", "account-text-sign"}

\* C1: from NoAccounts (empty store, nothing current), a command that creates
\* an account (account-new, or the creation reached through chooseAccount,
\* also inside getCurrent) leaves that account current: the current-account
\* query answers with it and without error, and a getCurrent that ran the
\* fallback returns it.
C1_FirstAccountBecomesCurrent ==
    [][(/\ pc = "running" /\ pc' = "running"
        /\ Len(store) = 0 /\ current = 0
        /\ Called(out', "CreateAccount"))
       => /\ Len(store') = 1
          /\ Client_CurrentAccount(Me').err = NoErr
          /\ Client_CurrentAccount(Me').acc = store'[1]
          /\ store'[1].name = out'.alias
          /\ out'.op \in NeedsCurrent
               => out'.acc = store'[1] /\ out'.err # "NoCurrentAccountError"]_vars

C1_Witness ==
    /\ pc = "running"
    /\ out.op = "account-sign"
    /\ out.calls = <<"CurrentAccount:err", "ListAccounts", "CreateAccount",
                     "StoreAccounts", "CurrentAccount">>
    /\ Len(store) = 1 /\ current = 1
    /\ out.acc = store[1]
    /\ out.sig # <<>>

C3_FailedSelectionChangesNothing ==
    [][(pc = "running"
        /\ (Called(out', "SetCurrentAccount:err") \/ Called(out', "ListAccounts:err")))
       => UNCHANGED <<store, current, file>>]_vars

C3_Witness ==
    /\ out.op = "account-set"
    /\ Called(out, "SetCurrentAccount:err")
    /\ out.err = "IndexOutOfRangeError"
    /\ current = 1
    /\ Len(store) = 2

\* C4: a Transfer in which either encoding failed returns an error and hands
\* nothing to SubmitCoinTransaction.
C4_EncodingFailureIsFatal ==
    (out.op = "transfer" /\ Called(out, "InterfaceToBytes:err"))
    => /\ out.err # NoErr
       /\ out.submitted = <<>>
       /\ ~Called(out, "SubmitCoinTransaction")
       /\ ~Called(out, "SubmitCoinTransaction:err")

\* C5: whatever its outcome (accepted, refused by the node, encoding error),
\* Transfer leaves the account store, the current account and the accounts
\* file as they were (the backend has no other field: it keeps no nonce).
C5_TransferKeepsLocalState ==
    [][out'.op = "transfer"
       => UNCHANGED <<store, current, file>>]_vars

C5_Witness ==
    /\ out.op = "transfer"
    /\ out.err = NoErr
    /\ out.submitted # <<>>
    /\ Len(store) = 2 /\ current = 2
    /\ file # ValidFile(store)

\* C6: a corrupt accounts file stays as it is until a command calls
\* StoreAccounts successfully; starting up never writes the file.
C6_CorruptFileKeptUntilSave ==
    [][/\ (file = CorruptFile /\ file' # file) => Called(out', "StoreAccounts")
       /\ out'.op = "start" => file' = file]_vars

C6_Witness ==
    /\ pc = "running"
    /\ file = CorruptFile
    /\ Len(store) = 1
    /\ Called(out, "StoreAccounts:err")

IsPrefix(p, s) == Len(p) <= Len(s) /\ SubSeq(s, 1, Len(p)) = p

\* the accounts a restart would find
Persisted(f) == common_LoadAccounts(f).store

Alive == pc \in {"running", "crashed"}

\* C7, as stated: at a crash the persisted accounts are a prefix of the
\* accounts in memory, short of at most the last one created.
C7_LosesAtMostLastCreation ==
    Alive => /\ IsPrefix(Persisted(file), store)
             /\ Len(store) - Len(Persisted(file)) <= 1

\* C7, amended: the file changes only in a command that called StoreAccounts
\* successfully, and such a command leaves exactly the accounts in memory on
\* file; the persisted accounts are always a prefix of those in memory; and
\* a step taken when everything was saved leaves at most the last created
\* account unsaved, also when it ends in a crash.
C7_LosesOnlyUnsavedCreations ==
    /\ [](Alive => IsPrefix(Persisted(file), store))
    /\ [][(pc = "running" /\ Alive')
          => /\ file' # file => Called(out', "StoreAccounts")
             /\ Called(out', "StoreAccounts") => Persisted(file') = store'
             /\ Persisted(file) = store
                  => Len(store') - Len(Persisted(file')) <= 1]_vars

C7_Witness ==
    /\ pc = "crashed"
    /\ out.calls = <<"CreateAccount">>
    /\ Len(store) = 2
    /\ Persisted(file) = <<store[1]>>

\* C8: a command that needs a current account signs or queries only with
\* the account that is current when it does so: the one that was current
\* before, or the one the operator chose or created in the single fallback
\* of getCurrent; when none is current after the fallback it reports the
\* error and neither signs nor queries.
C8_NoSilentPick ==
    [][(pc = "running" /\ out'.op \in NeedsCurrent)
       => LET used == out'.sig # <<>> \/ out'.query # <<>>
              now == Client_CurrentAccount(Me')
          IN  /\ now.err # NoErr => ~used /\ out'.err = "NoCurrentAccountError"
              /\ used => /\ now.err = NoErr /\ out'.acc = now.acc
                         /\ out'.sig # <<>> => out'.sig[2] = now.acc.key
                         /\ out'.query # <<>> => out'.query[2] = Address(now.acc)
              /\ (used /\ current # 0) => current' = current
              /\ (used /\ current = 0)
                   => \/ Called(out', "SetCurrentAccount") /\ current' = out'.choice
                      \/ Called(out', "CreateAccount") /\ now.acc.name = out'.alias
              /\ Cardinality({i \in 1..Len(out'.calls) :
                     out'.calls[i] \in {"ListAccounts", "ListAccounts:err"}}) <= 1]_vars

C8_Witness ==
    /\ out.op = "account-sign"
    /\ out.err = "NoCurrentAccountError"
    /\ out.choice = 0
    /\ Len(store) = 2 /\ current = 0
    /\ out.sig = <<>>

\* C9, as stated: a typed position k in 1..n makes listAccounts()[k-1]
\* current; position 0 and positions beyond n fail with
\* IndexOutOfRangeError.
C9_PositionZeroFails ==
    [][(pc = "running" /\ out'.choice # -1)
       => LET k == out'.choice
          IN  /\ (1 <= k /\ k <= Len(store))
                   => Client_CurrentAccount(Me').acc.name
                        = Client_ListAccounts(Me, TRUE).accs[k]
              /\ (k = 0 \/ k > Len(store))
                   => /\ Called(out', "SetCurrentAccount:err")
                      /\ Client_SetCurrentAccount(Me, k - 1).err
                           = "IndexOutOfRangeError"]_vars

\* C9, amended: a typed position k in 1..n makes listAccounts()[k-1]
\* current; a position beyond n fails with IndexOutOfRangeError and changes
\* nothing; position 0 means "none": SetCurrentAccount is not called, no
\* error is raised and nothing changes.
C9_PositionSelects ==
    [][(pc = "running" /\ out'.choice # -1)
       => LET k == out'.choice
          IN  /\ (1 <= k /\ k <= Len(store))
                   => /\ Client_CurrentAccount(Me').err = NoErr
                      /\ Client_CurrentAccount(Me').acc
                           = store[k]
                      /\ Client_CurrentAccount(Me').acc.name
                           = Client_ListAccounts(Me, TRUE).accs[k]
                      /\ UNCHANGED <<store, file>>
              /\ k > Len(store)
                   => /\ Called(out', "SetCurrentAccount:err")
                      /\ Client_SetCurrentAccount(Me, k - 1).err
                           = "IndexOutOfRangeError"
                      /\ out'.op = "account-set" => out'.err = "IndexOutOfRangeError"
                      /\ UNCHANGED <<store, current, file>>
              /\ k = 0
                   => /\ ~Called(out', "SetCurrentAccount")
                      /\ ~Called(out', "SetCurrentAccount:err")
                      /\ out'.op = "account-set" => out'.err = NoErr
                      /\ UNCHANGED <<store, current, file>>]_vars

C9_Witness ==
    /\ out.op = "account-set"
    /\ out.choice = 2
    /\ Called(out, "SetCurrentAccount")
    /\ Len(store) = 2 /\ current = 2

UniqueAliases ==
    \A i, j \in 1..Len(store) : store[i].name = store[j].name => i = j

\* C10: creating an account under an alias the store already holds fails
\* with DuplicateAliasError, leaves the store as long as it was and does not
\* call StoreAccounts; the aliases of the store are pairwise distinct.
C10_DuplicateAliasRejected ==
    /\ []UniqueAliases
    /\ [][(/\ pc = "running"
           /\ out'.alias \in AliasesOf(store)
           /\ (Called(out', "CreateAccount") \/ Called(out', "CreateAccount:err")))
          => /\ Called(out', "CreateAccount:err")
             /\ out'.err = "DuplicateAliasError"
             /\ Len(store') = Len(store)
             /\ store' = store
             /\ ~Called(out', "StoreAccounts")
             /\ ~Called(out', "StoreAccounts:err")
             /\ file' = file]_vars

C10_Witness ==
    /\ out.op = "account-new"
    /\ out.err = "DuplicateAliasError"
    /\ Len(store) = 2
    /\ out.alias = store[2].name

C12_SelectionChangesOnlyCurrent ==
    [][(pc = "running" /\ Called(out', "SetCurrentAccount"))
       => /\ current' = out'.choice
          /\ Len(store') = Len(store)
          /\ \A i \in 1..Len(store) :
               store'[i].name = store[i].name /\ store'[i].key = store[i].key
          /\ file' = file]_vars

C12_Witness ==
    /\ out.op = "account-set"
    /\ out.choice = 2
    /\ current = 2
    /\ Len(store) = 2
    /\ store[1].name = "alice" /\ store[2].name = "bob"
    /\ file # ValidFile(store)

\* C13: the bytes Transfer hands to SubmitCoinTransaction carry the five
\* fields and then a signature, and that signature is the signature of the
\* encoding of those same five fields.
C13_SignatureCoversFields ==
    (out.op = "transfer" /\ out.submitted # <<>>)
    => /\ Len(out.submitted) = 6
       /\ out.submitted[6]
            = Sign2(out.submitted[6][2], SubSeq(out.submitted, 1, 5))

\* the trace a handler leaves
OpOf(fn) ==
    CASE fn = "openWallet" -> "wallet-open"
      [] fn = "createWallet" -> "wallet-create"
      [] fn = "closeWallet" -> "wallet-close"
      [] fn = "walletInfo" -> "wallet-info"
      [] fn = "createAccount" -> "account-new"
      [] fn = "chooseAccount" -> "account-set"
      [] fn = "printAccountInfo" -> "account-info"
      [] fn = "printLocalAccountRewards" -> "account-rewards"
      [] fn = "sign" -> "account-sign"
      [] fn = "signText" -> "account-text-sign"
      [] fn = "submitCoinTransaction" -> "transfer"
      [] fn = "quit" -> "quit"
      [] OTHER -> "other"

\* the positions of the commands whose full text is a prefix of text
Matches(cmds, text) == {i \in 1..Len(cmds) : IsPrefix(cmds[i].text, text)}

First(S) == CHOOSE i \in S : \A j \in S : i <= j

\* the last command was run by executor to its end
Executed == disp.fn # "" /\ out.op # "crash"

\* C14: dispatch is first match by prefix: for the text typed, the handler
\* that runs is the one of the first command in table order whose full text
\* is a prefix of it, and the text is recorded as the input; when no command
\* text is a prefix of it no handler runs, an invalid command is reported
\* and nothing changes.
C14_FirstMatchDispatch ==
    /\ [](Executed
          => LET M == Matches(disp.table, disp.typed)
             IN  IF M = {}
                 THEN disp.fn = "invalid" /\ out.op = "invalid"
                 ELSE /\ disp.fn = disp.table[First(M)].fn
                      /\ disp.text = disp.table[First(M)].text
                      /\ out.op = OpOf(disp.table[First(M)].fn)
                      /\ input = disp.typed)
    /\ [][out'.op = "invalid"
          => UNCHANGED <<pc, store, current, file, commands, clientOpen,
                         input>>]_vars

\* a text that two commands match ran the first of them, and an
\* abbreviation ran nothing
C14_Witness ==
    /\ disp.typed = txt_smesher_rewards_address \o Params
    /\ Cardinality(Matches(commands, disp.typed)) = 2
    /\ disp.fn = "printRewardsAddress"
    /\ input = disp.typed
    /\ out.op = "other"

\* C15: state-stream-account and state-stream-rewards are two commands with
\* handlers of their own: typing state-stream-account runs a handler other
\* than the one state-stream-rewards runs.
C15_StreamHandlersDiffer ==
    (Executed /\ disp.text = txt_state_stream_account)
    => disp.fn # executor(disp.table, txt_state_stream_rewards).fn

\* no command text is a prefix of the text of a command listed after it
NoShadow(cmds) ==
    \A i, j \in 1..Len(cmds) :
        (i # j /\ IsPrefix(cmds[i].text, cmds[j].text)) => j < i

\* every command's text, alone or followed by parameters, finds its own entry
OwnEntry(cmds) ==
    \A i \in 1..Len(cmds) :
        /\ executor(cmds, cmds[i].text).i = i
        /\ executor(cmds, cmds[i].text \o Params).i = i

\* initializeCommands built the table in this step, or left the one it
\* built before
TableBuilt ==
    pc = "running" /\ out.op \in {"start", "wallet-open", "wallet-create", "wallet-close"}

\* C16: no command is shadowed: in the table of the open wallet and in the
\* table of the closed wallet a command text that is a prefix of another is
\* listed after it, so that a command's text, alone or followed by
\* parameters, runs that command's own entry.
C16_NoCommandShadowed ==
    /\ TableBuilt => NoShadow(commands) /\ OwnEntry(commands)
    /\ Executed
       => \A i \in 1..Len(disp.table) :
            disp.typed \in {disp.table[i].text, disp.table[i].text \o Params}
            => disp.text = disp.table[i].text /\ disp.fn = disp.table[i].fn

C16_Witness ==
    /\ clientOpen
    /\ disp.typed = txt_smesher_rewards_address
    /\ IsPrefix(txt_smesher_rewards, disp.typed)
    /\ disp.fn = "printRewardsAddress"
    /\ executor(commands, txt_smesher_rewards).fn = "printCurrentSmesherRewards"

TableTexts(cmds) == {cmds[i].text : i \in 1..Len(cmds)}

\* the commands of an open wallet, and those of a closed wallet
WalletOpenTexts ==
    {txt_wallet_info, txt_wallet_close, txt_account_new, txt_account_set,
     txt_account_info, txt_account_rewards, txt_account_sign,
     txt_account_text_sign, txt_account_txs, txt_account_send_coin}

WalletClosedTexts == {txt_wallet_open, txt_wallet_create}

\* C17: the command table follows the wallet flag: after Start and after
\* every wallet-open, wallet-create and wallet-close, failed or not, the
\* table holds the account, wallet-info and wallet-close commands exactly
\* when clientOpen is true and wallet-open and wallet-create exactly when it
\* is false, and no account command, alone or with parameters, is
\* dispatched while the wallet is closed.
C17_TableFollowsWalletFlag ==
    pc = "running"
    => /\ \A t \in WalletOpenTexts : t \in TableTexts(commands) <=> clientOpen
       /\ \A t \in WalletClosedTexts : t \in TableTexts(commands) <=> ~clientOpen
       /\ ~clientOpen
          => \A t \in WalletOpenTexts :
               /\ executor(commands, t).fn = "invalid"
               /\ executor(commands, t \o Params).fn = "invalid"

\* the wallet was closed and an account command was then refused
C17_Witness ==
    /\ pc = "running"
    /\ ~clientOpen
    /\ input = txt_wallet_close
    /\ disp.typed = txt_account_new
    /\ out.op = "invalid"
    /\ Len(store) >= 1

\* C18: a backend is returned only when the node connection succeeds, and
\* the backend returned has no current account, whether the accounts file
\* was loaded, was absent or could not be read: it holds the accounts of the
\* file, or none, and CurrentAccount answers NoCurrentAccountError.
C18_FreshBackendHasNoCurrent ==
    out.op = "start"
    => /\ pc = "running" <=> out.err = NoErr
       /\ pc # "running" => out.err = "ConnectError"
       /\ pc = "running"
          => /\ current = 0
             /\ Client_CurrentAccount(Me).err = "NoCurrentAccountError"
             /\ store = Persisted(file)

C18_Witness ==
    /\ out.op = "start"
    /\ pc = "running"
    /\ Len(store) = 2
    /\ file = ValidFile(store)
    /\ current = 0

====
